---- MODULE Spec2Model ----
(***************************************************************************)
(* A model of fix_client.go: the FixApplication callbacks that the FIX     *)
(* engine drives (OnCreate, OnLogon, OnLogout, ToAdmin, FromAdmin, ToApp,  *)
(* FromApp), the logon signer sign and the order builder                   *)
(* createOrderMessage.                                                     *)
(*                                                                         *)
(* Strings are TLA+ strings.  A FIX field map (quickfix Header / Body) is  *)
(* a function from the tags that are set to their string values.  A log    *)
(* line is the record of what the log call was given: its leading text,    *)
(* its string arguments and the messages it renders.                       *)
(***************************************************************************)
EXTENDS Integers, Sequences, FiniteSets, TLC

VARIABLES
    clock,      \* the wall clock time.Now() reads, in ticks of 1/TicksPerMilli ms
    app,        \* the FixApplication struct
    sess,       \* per session, the engine's phase and next outgoing MsgSeqNum
    event,      \* the callback that ran last, [name, sessionId]
    cbIn,       \* the message handed to the last callback (EmptyMessage when none)
    cbOut,      \* the same message when the callback returned
    signedWith, \* the locals timestamp and seqNum of the last ToAdmin that signed
    ret,        \* what the last callback returned
    logged,     \* the log lines the last callback wrote, in order
    logons,     \* the session ID of every OnLogon event so far
    sends,      \* every call of quickfix.SendToTarget so far: [msg, sessionId, ok]
    sgn,        \* SpecSign: two calls of sign, [step, a, b, outA, outB, changed]
    ord         \* SpecOrder: one call of createOrderMessage, [args, msg, log, built]

vars == <<clock, app, sess, event, cbIn, cbOut, signedWith, ret, logged,
          logons, sends, sgn, ord>>

----------------------------------------------------------------------------
(* Bounds of the model *)

MaxClock == 1       \* the clock runs over the ticks 0..MaxClock
TicksPerMilli == 1  \* clock ticks in a millisecond
MaxSeq == 4         \* outgoing sequence numbers handed out per session
MaxLen == 1         \* length of the strings sign is tried on

(* time.Format("20060102-15:04:05.000") keeps milliseconds; UnixNano keeps
   nanoseconds *)
NanosPerMilli == 1000000

----------------------------------------------------------------------------
(* quickfix field maps and messages *)

EmptyFields == [t \in {} |-> ""]

EmptyMessage == [Header |-> EmptyFields, Body |-> EmptyFields]

\* FieldMap.SetField: set or overwrite one tag
SetField(fields, tag, value) ==
    [t \in DOMAIN fields \cup {tag} |-> IF t = tag THEN value ELSE fields[t]]

\* FieldMap.GetString / GetField into a zero-valued FIXString: the value, or
\* "" (with an error the callers drop) when the tag is absent
GetString(fields, tag) == IF tag \in DOMAIN fields THEN fields[tag] ELSE ""

Has(fields, tag) == tag \in DOMAIN fields

\* Message.String(): the rendering holds every header and body value
Rendered(msg) ==
    {msg.Header[t] : t \in DOMAIN msg.Header} \cup {msg.Body[t] : t \in DOMAIN msg.Body}

\* a log line: log.Println / log.Printf with its arguments
LogLine(text, strs, msgs) == [text |-> text, strs |-> strs, msgs |-> msgs]

\* the values a log line shows
LineShows(line) ==
    {line.strs[i] : i \in DOMAIN line.strs}
        \cup UNION {Rendered(line.msgs[i]) : i \in DOMAIN line.msgs}

----------------------------------------------------------------------------
(* the clock *)

UnixNano(t) == (t * NanosPerMilli) \div TicksPerMilli

\* Format("20060102-15:04:05.000"): the reading cut to whole milliseconds
FormatTime(t) == ToString(UnixNano(t) \div NanosPerMilli)

\* a later call of time.Now() in the same handler reads the same instant or a
\* later one
LaterReadings(t) == t..MaxClock

----------------------------------------------------------------------------
(* sign *)

\* faulty variant: the passphrase left out of the signed data
SignMessageNoPassphrase(timestamp, msgType, seqNum, accessKey, targetCompID, passphrase) ==
    timestamp \o msgType \o seqNum \o accessKey \o targetCompID

\* the signed data of sign: the six components in order, no separators
SignMessage(timestamp, msgType, seqNum, accessKey, targetCompID, passphrase) ==
    timestamp \o msgType \o seqNum \o accessKey \o targetCompID \o passphrase

\* HMAC-SHA256 keyed with secret, base64-encoded.  The keyed hash is taken
\* collision-free: the digest names its key and its data.
HmacBase64(secret, message) == "b64(hmac[" \o secret \o "](" \o message \o "))"

sign(timestamp, msgType, seqNum, accessKey, targetCompID, passphrase, secret) ==
    HmacBase64(secret,
               SignMessage(timestamp, msgType, seqNum, accessKey, targetCompID, passphrase))

----------------------------------------------------------------------------
(* the process environment and the configured sessions *)

\* os.Getenv
Getenv(name) ==
    CASE name = "ACCESS_KEY" -> "access-key"
      [] name = "SIGNING_KEY" -> "signing-key"
      [] name = "PASSPHRASE" -> "passphrase"
      [] name = "PORTFOLIO_ID" -> "portfolio-id"
      [] name = "SVC_ACCOUNTID" -> "svc-account"
      [] OTHER -> ""

\* the sessions fix.cfg declares
SessionIDs == {"FIX.4.2:CLIENT1->COIN"}

----------------------------------------------------------------------------
(* createOrderMessage *)

\* faulty variant: the Market branch also copies limitPrice into Price
OrdTypeFieldsPriceAlways(body, ordType, limitPrice) ==
    IF ordType = "LIMIT"
    THEN SetField(SetField(SetField(SetField(body, 40, "2"), 59, "1"), 44, limitPrice),
                  847, "L")
    ELSE IF ordType = "MARKET"
    THEN SetField(SetField(SetField(SetField(body, 40, "1"), 59, "3"), 44, limitPrice),
                  847, "M")
    ELSE body

\* Order Type, TimeInForce, Price, TargetStrategy
OrdTypeFields(body, ordType, limitPrice) ==
    IF ordType = "LIMIT"
    THEN SetField(SetField(SetField(SetField(body, 40, "2"), 59, "1"), 44, limitPrice),
                  847, "L")
    ELSE IF ordType = "MARKET"
    THEN SetField(SetField(SetField(body, 40, "1"), 59, "3"), 847, "M")
    ELSE body

\* faulty variant: the two side codes exchanged
SideFieldExchanged(body, side) ==
    IF side = "BUY" THEN SetField(body, 54, "2") ELSE SetField(body, 54, "1")

\* Side
SideField(body, side) ==
    IF side = "BUY" THEN SetField(body, 54, "1") ELSE SetField(body, 54, "2")

\* fmt.Sprintf("%d", time.Now().UnixNano())
ClientOrderId(t) == ToString(UnixNano(t))

\* the message createOrderMessage returns; tHeader and tId are the readings
\* of its two time.Now() calls
createOrderMessage(symbol, ordType, side, quantity, limitPrice, portfolioId, tHeader, tId) ==
    LET header == SetField(SetField(SetField(SetField(EmptyFields,
                      35, "D"), 49, Getenv("SVC_ACCOUNTID")), 56, "COIN"),
                      52, FormatTime(tHeader))
        b0 == SetField(SetField(SetField(EmptyFields,
                      1, portfolioId), 11, ClientOrderId(tId)), 55, symbol)
        b1 == OrdTypeFields(b0, ordType, limitPrice)
        b2 == SideField(b1, side)
        b3 == SetField(b2, 38, quantity)
    IN  [Header |-> header, Body |-> b3]

\* the two lines createOrderMessage logs
createOrderLog(symbol, side, quantity, limitPrice, order) ==
    << LogLine("Order Message:",
               <<order.Body[11], symbol, side, quantity, limitPrice>>, <<>>),
       LogLine("Full FIX Message:", <<>>, <<order>>) >>

----------------------------------------------------------------------------
(* what the engine hands to the callbacks *)

AdminTypes == {"A", "0", "1", "2", "4", "5"}

\* an outgoing administrative message as the engine passes it to ToAdmin:
\* the header is filled (MsgSeqNum from the store, SendingTime from the
\* clock), the body holds the fields of its type
AdminBody(msgType) ==
    CASE msgType = "A" -> SetField(SetField(EmptyFields, 98, "0"), 108, "30")
      [] msgType = "1" -> SetField(EmptyFields, 112, "TEST")
      [] msgType = "2" -> SetField(SetField(EmptyFields, 7, "1"), 16, "0")
      [] msgType = "4" -> SetField(EmptyFields, 36, "2")
      [] OTHER -> EmptyFields

OutgoingHeader(msgType, seq, t) ==
    SetField(SetField(SetField(EmptyFields, 35, msgType), 34, ToString(seq)),
             52, FormatTime(t))

OutgoingAdmin(msgType, seq, t) ==
    [Header |-> OutgoingHeader(msgType, seq, t), Body |-> AdminBody(msgType)]

\* an incoming administrative message
IncomingAdmin(msgType) ==
    [Header |-> SetField(SetField(EmptyFields, 35, msgType), 49, "COIN"),
     Body |-> AdminBody(msgType)]

\* the fields processExecutionReport reads, with the value the venue sends
ReportTags == {150, 37, 11, 54, 38}

ReportValue(tag) ==
    CASE tag = 150 -> "0"
      [] tag = 37 -> "venue-order-1"
      [] tag = 11 -> "17"
      [] tag = 54 -> "1"
      [] tag = 38 -> "0.0015"

\* incoming application messages: execution reports carrying all the fields
\* or all but one, and other business messages
IncomingApp ==
    {[Header |-> SetField(SetField(EmptyFields, 35, "8"), 49, "COIN"),
      Body |-> [t \in present |-> ReportValue(t)]] :
        present \in {ReportTags} \cup {ReportTags \ {t} : t \in ReportTags}}
    \cup
    {[Header |-> SetField(SetField(EmptyFields, 35, ty), 49, "COIN"),
      Body |-> SetField(EmptyFields, 58, "text")] : ty \in {"9", "j"}}

----------------------------------------------------------------------------
(* the callbacks of FixApplication *)

NoSigning == [signed |-> FALSE, timestamp |-> "", seqNum |-> ""]

Event(name, sessionId) == [name |-> name, sessionId |-> sessionId]

\* faulty variant: the authentication fields set on every administrative message
IsLogonAlways(msgType) == TRUE

\* the test ToAdmin makes on tag 35
IsLogon(msgType) == msgType = "A"

\* the body ToAdmin leaves on a Logon
AuthFields(body, a, signature) ==
    SetField(SetField(SetField(SetField(SetField(body,
        1, a.PortfolioId), 96, signature), 554, a.Passphrase), 9406, "Y"),
        9407, a.ApiKey)

\* ToAdmin's effect on the message; t is the reading of its time.Now()
ToAdminMessage(a, msg, t) ==
    IF IsLogon(GetString(msg.Header, 35))
    THEN [msg EXCEPT !.Body =
             AuthFields(msg.Body, a,
                        sign(FormatTime(t), "A", "1", a.ApiKey, a.TargetCompId,
                             a.Passphrase, a.ApiSecret))]
    ELSE msg

\* the line processExecutionReport logs
ExecutionReportLine(msg) ==
    LogLine("Execution Report:",
            <<GetString(msg.Body, 37), GetString(msg.Body, 11), GetString(msg.Body, 54),
              GetString(msg.Body, 38), GetString(msg.Body, 150)>>, <<>>)

\* faulty variant: a failed send is tried once more
SendCallsRetry(order, sessionId, ok) ==
    IF ok THEN <<[msg |-> order, sessionId |-> sessionId, ok |-> TRUE]>>
    ELSE <<[msg |-> order, sessionId |-> sessionId, ok |-> FALSE],
           [msg |-> order, sessionId |-> sessionId, ok |-> FALSE]>>

\* the calls of quickfix.SendToTarget one OnLogon makes
SendCalls(order, sessionId, ok) ==
    <<[msg |-> order, sessionId |-> sessionId, ok |-> ok]>>

OnCreate(sessionId) ==
    /\ sess[sessionId].phase = "new"
    /\ sess' = [sess EXCEPT ![sessionId].phase = "created"]
    /\ app' = [app EXCEPT !.SessionId = sessionId]
    /\ logged' = <<LogLine("Session created:", <<sessionId>>, <<>>)>>
    /\ event' = Event("OnCreate", sessionId)
    /\ cbIn' = EmptyMessage /\ cbOut' = EmptyMessage /\ ret' = "none"
    /\ UNCHANGED <<clock, signedWith, logons, sends, sgn, ord>>

OnLogon(sessionId) ==
    /\ sess[sessionId].phase = "logonAcked"
    /\ \E tId \in LaterReadings(clock), ok \in BOOLEAN :
          LET order == createOrderMessage("ETH-USD", "LIMIT", "BUY", "0.0015", "1001",
                                          app.PortfolioId, clock, tId)
              seq == sess[sessionId].nextSeq
              \* the engine fills the header before it calls ToApp
              wire == [order EXCEPT !.Header =
                          SetField(SetField(@, 34, ToString(seq)), 52, FormatTime(tId))]
          IN  /\ ok => seq <= MaxSeq
              /\ clock' = tId
              /\ sess' = [sess EXCEPT ![sessionId] =
                            [phase |-> "active", nextSeq |-> IF ok THEN seq + 1 ELSE seq]]
              /\ sends' = sends \o SendCalls(order, sessionId, ok)
              /\ logged' =
                    <<LogLine(" Logged in:", <<sessionId>>, <<>>)>>
                    \o createOrderLog("ETH-USD", "BUY", "0.0015", "1001", order)
                    \o <<LogLine("Raw FIX Message:", <<>>, <<order>>)>>
                    \o (IF ok
                        THEN <<LogLine("Sending App:", <<>>, <<wire>>),
                               LogLine("Order sent successfully!", <<>>, <<>>)>>
                        ELSE <<LogLine("Failed to send order:", <<"send failed">>, <<>>)>>)
              /\ cbIn' = EmptyMessage /\ cbOut' = order
    /\ app' = [app EXCEPT !.SessionId = sessionId]
    /\ logons' = Append(logons, sessionId)
    /\ event' = Event("OnLogon", sessionId)
    /\ ret' = "none"
    /\ UNCHANGED <<signedWith, sgn, ord>>

OnLogout(sessionId) ==
    /\ sess[sessionId].phase \in {"logonSent", "logonAcked", "active", "logoutSent"}
    /\ sess' = [sess EXCEPT ![sessionId].phase = "created"]
    /\ logged' = <<LogLine("Logged out:", <<sessionId>>, <<>>)>>
    /\ event' = Event("OnLogout", sessionId)
    /\ cbIn' = EmptyMessage /\ cbOut' = EmptyMessage /\ ret' = "none"
    /\ UNCHANGED <<clock, app, signedWith, logons, sends, sgn, ord>>

\* the readings the engine can take when it fills the header of an outgoing
\* administrative message: a Logon that reconnects is sent after the
\* reconnect interval, any other message at once
HeaderReadings(sessionId, msgType) ==
    IF msgType = "A" /\ sess[sessionId].nextSeq > 1
    THEN LaterReadings(clock) \ {clock}
    ELSE {clock}

\* the engine sends an administrative message of type msgType
ToAdmin(sessionId, msgType) ==
    /\ CASE msgType = "A" -> sess[sessionId].phase = "created"
         [] msgType = "5" -> sess[sessionId].phase \in {"logonAcked", "active"}
         [] OTHER -> sess[sessionId].phase = "active"
    /\ sess[sessionId].nextSeq <= MaxSeq
    /\ \E tHeader \in HeaderReadings(sessionId, msgType) :
       \E t \in LaterReadings(tHeader) :
          LET msg == OutgoingAdmin(msgType, sess[sessionId].nextSeq, tHeader)
          IN  /\ cbIn' = msg
              /\ cbOut' = ToAdminMessage(app, msg, t)
              /\ logged' = <<LogLine("Sending Admin:", <<>>, <<msg>>)>>
              /\ IF IsLogon(msgType)
                 THEN /\ clock' = t
                      /\ signedWith' = [signed |-> TRUE, timestamp |-> FormatTime(t),
                                        seqNum |-> "1"]
                 ELSE /\ t = tHeader
                      /\ UNCHANGED <<clock, signedWith>>
    /\ sess' = [sess EXCEPT ![sessionId] =
                  [phase |-> CASE msgType = "A" -> "logonSent"
                               [] msgType = "5" -> "logoutSent"
                               [] OTHER -> @.phase,
                   nextSeq |-> @.nextSeq + 1]]
    /\ event' = Event("ToAdmin", sessionId)
    /\ ret' = "none"
    /\ UNCHANGED <<app, logons, sends, sgn, ord>>

FromAdmin(sessionId, msgType) ==
    /\ CASE msgType = "A" -> sess[sessionId].phase = "logonSent"
         [] msgType = "5" -> sess[sessionId].phase \in {"logonSent", "active", "logoutSent"}
         [] OTHER -> sess[sessionId].phase = "active"
    /\ sess' = [sess EXCEPT ![sessionId].phase =
                  IF msgType = "A" THEN "logonAcked" ELSE @]
    /\ cbIn' = IncomingAdmin(msgType) /\ cbOut' = IncomingAdmin(msgType)
    /\ logged' = <<LogLine("Received Admin:", <<>>, <<IncomingAdmin(msgType)>>)>>
    /\ event' = Event("FromAdmin", sessionId)
    /\ ret' = "nil"
    /\ UNCHANGED <<clock, app, signedWith, logons, sends, sgn, ord>>

\* the engine sends an application message again (a resend): the only
\* application messages of this program are the orders OnLogon sent
ToApp(sessionId, i) ==
    /\ sess[sessionId].phase = "active"
    /\ sends[i].sessionId = sessionId /\ sends[i].ok
    /\ LET msg == [sends[i].msg EXCEPT !.Header = SetField(@, 43, "Y")]
       IN  /\ cbIn' = msg /\ cbOut' = msg
           /\ logged' = <<LogLine("Sending App:", <<>>, <<msg>>)>>
    /\ event' = Event("ToApp", sessionId)
    /\ ret' = "nil"
    /\ UNCHANGED <<clock, app, sess, signedWith, logons, sends, sgn, ord>>

FromApp(sessionId, msg) ==
    /\ sess[sessionId].phase = "active"
    /\ cbIn' = msg /\ cbOut' = msg
    /\ logged' = <<LogLine("Received App:", <<>>, <<msg>>)>>
                 \o (IF GetString(msg.Header, 35) = "8"
                     THEN <<ExecutionReportLine(msg)>> ELSE <<>>)
    /\ event' = Event("FromApp", sessionId)
    /\ ret' = "nil"
    /\ UNCHANGED <<clock, app, sess, signedWith, logons, sends, sgn, ord>>

\* time passes
Tick ==
    /\ \E t \in LaterReadings(clock) \ {clock} : clock' = t
    /\ UNCHANGED <<app, sess, event, cbIn, cbOut, signedWith, ret, logged,
                   logons, sends, sgn, ord>>

\* the wall clock is set back (time.Now().UnixNano() is a wall-clock reading)
ClockSetBack ==
    /\ \E t \in 0..(clock - 1) : clock' = t
    /\ UNCHANGED <<app, sess, event, cbIn, cbOut, signedWith, ret, logged,
                   logons, sends, sgn, ord>>

----------------------------------------------------------------------------
(* the program *)

\* main: the application struct, before the initiator creates its sessions
NewApplication ==
    [ApiKey |-> Getenv("ACCESS_KEY"), ApiSecret |-> Getenv("SIGNING_KEY"),
     Passphrase |-> Getenv("PASSPHRASE"), TargetCompId |-> "COIN",
     PortfolioId |-> Getenv("PORTFOLIO_ID"), SessionId |-> ""]

NoSign == [step |-> 0, a |-> <<>>, b |-> <<>>, outA |-> "", outB |-> "", changed |-> 0]

NoOrder == [args |-> <<>>, msg |-> EmptyMessage, log |-> <<>>, built |-> FALSE]


\* everything but sgn and ord: the session state
sessionVars == <<clock, app, sess, event, cbIn, cbOut, signedWith, ret, logged,
                 logons, sends>>

InitSession ==
    /\ clock = 0
    /\ app = NewApplication
    /\ sess = [s \in SessionIDs |-> [phase |-> "new", nextSeq |-> 1]]
    /\ event = Event("main", "")
    /\ cbIn = EmptyMessage /\ cbOut = EmptyMessage
    /\ signedWith = NoSigning
    /\ ret = "none"
    /\ logged = <<>>
    /\ logons = <<>>
    /\ sends = <<>>

Init ==
    /\ InitSession
    /\ sgn = NoSign
    /\ ord = NoOrder

Next ==
    \/ \E s \in SessionIDs : OnCreate(s)
    \/ \E s \in SessionIDs : OnLogon(s)
    \/ \E s \in SessionIDs : OnLogout(s)
    \/ \E s \in SessionIDs, ty \in AdminTypes : ToAdmin(s, ty)
    \/ \E s \in SessionIDs, ty \in AdminTypes : FromAdmin(s, ty)
    \/ \E s \in SessionIDs, i \in DOMAIN sends : ToApp(s, i)
    \/ \E s \in SessionIDs, m \in IncomingApp : FromApp(s, m)
    \/ Tick
    \/ ClockSetBack

Spec == Init /\ [][Next]_vars

----------------------------------------------------------------------------
(* sign as a function: one call, then a second call with the same inputs or
   with exactly one of the seven inputs changed *)

Alphabet == {"a", "b"}

RECURSIVE Strs(_)
Strs(n) ==
    IF n = 0 THEN {""} ELSE Strs(n - 1) \cup {x \o c : x \in Strs(n - 1), c \in Alphabet}

\* the inputs of the first call
BaseStrs == {"", "a", "ab"}

Sign7(in) == sign(in[1], in[2], in[3], in[4], in[5], in[6], in[7])

SignData(in) == SignMessage(in[1], in[2], in[3], in[4], in[5], in[6])

InitSign ==
    /\ InitSession
    /\ ord = NoOrder
    /\ \E in \in [1..7 -> BaseStrs] :
          sgn = [step |-> 0, a |-> in, b |-> in, outA |-> "", outB |-> "", changed |-> 0]

SignFirst ==
    /\ sgn.step = 0
    /\ sgn' = [sgn EXCEPT !.step = 1, !.outA = Sign7(sgn.a)]
    /\ UNCHANGED <<sessionVars, ord>>

SignSame ==
    /\ sgn.step = 1
    /\ sgn' = [sgn EXCEPT !.step = 2, !.outB = Sign7(sgn.b)]
    /\ UNCHANGED <<sessionVars, ord>>

SignChanged(i, v) ==
    /\ sgn.step = 1
    /\ v # sgn.a[i]
    /\ LET in == [sgn.a EXCEPT ![i] = v]
       IN  sgn' = [sgn EXCEPT !.step = 2, !.b = in, !.outB = Sign7(in), !.changed = i]
    /\ UNCHANGED <<sessionVars, ord>>

NextSign ==
    \/ SignFirst
    \/ SignSame
    \/ \E i \in 1..7, v \in Strs(MaxLen) : SignChanged(i, v)

SpecSign == InitSign /\ [][NextSign]_vars

----------------------------------------------------------------------------
(* createOrderMessage as a function of its arguments *)

OrderArgs ==
    [symbol : {"ETH-USD", "BTC-USD"},
     ordType : {"LIMIT", "MARKET", "STOP", "limit"},
     side : {"BUY", "SELL", "HOLD"},
     quantity : {"0.0015", "0"},
     limitPrice : {"1001", ""},
     portfolioId : {Getenv("PORTFOLIO_ID")}]

InitOrder ==
    /\ InitSession
    /\ sgn = NoSign
    /\ \E args \in OrderArgs :
          ord = [args |-> args, msg |-> EmptyMessage, log |-> <<>>, built |-> FALSE]

BuildOrder ==
    /\ ~ord.built
    /\ \E tId \in LaterReadings(clock) :
          LET a == ord.args
              order == createOrderMessage(a.symbol, a.ordType, a.side, a.quantity,
                                          a.limitPrice, a.portfolioId, clock, tId)
          IN  /\ ord' = [ord EXCEPT !.msg = order, !.built = TRUE,
                             !.log = createOrderLog(a.symbol, a.side, a.quantity,
                                                    a.limitPrice, order)]
              /\ clock' = tId
    /\ UNCHANGED <<app, sess, event, cbIn, cbOut, signedWith, ret, logged,
                   logons, sends, sgn>>

NextOrder == BuildOrder

SpecOrder == InitOrder /\ [][NextOrder]_vars

----------------------------------------------------------------------------
(* Properties *)

AuthTags == {1, 96, 554, 9406, 9407}

Credentials == {app.ApiKey, app.ApiSecret, app.Passphrase, app.PortfolioId}

LastSend == sends[Len(sends)]

\* C1: the order OnLogon builds, createOrderMessage("ETH-USD", "LIMIT", "BUY",
\* "0.0015", "1001", PortfolioId), is a NewOrderSingle (35=D) whose body holds
\* OrdType 40 = "2", Side 54 = "1", OrderQty 38 = "0.0015", Price 44 = "1001",
\* Symbol 55 = "ETH-USD" and a non-empty ClOrdID 11, and it is the message
\* handed to SendToTarget.
C1_LogonOrderFields ==
    event.name = "OnLogon" =>
        /\ LastSend.msg = cbOut
        /\ GetString(cbOut.Header, 35) = "D"
        /\ {40, 54, 38, 44, 55, 11} \subseteq DOMAIN cbOut.Body
        /\ cbOut.Body[40] = "2"
        /\ cbOut.Body[54] = "1"
        /\ cbOut.Body[38] = "0.0015"
        /\ cbOut.Body[44] = "1001"
        /\ cbOut.Body[55] = "ETH-USD"
        /\ cbOut.Body[11] # ""

C1_Witness == event.name = "OnLogon" /\ LastSend.ok /\ Has(cbOut.Body, 44)

\* C2: no two orders built in a session carry the same ClOrdID (tag 11).
C2_ClOrdIDUnique ==
    \A i, j \in DOMAIN sends :
        i # j => sends[i].msg.Body[11] # sends[j].msg.Body[11]

\* C3: a second call of sign with the same seven inputs returns the same
\* signature; a second call with exactly one input changed has a different
\* signed string or a different key, and returns a different signature.
C3_SignSensitive ==
    sgn.step = 2 =>
        IF sgn.changed = 0
        THEN sgn.b = sgn.a /\ sgn.outB = sgn.outA
        ELSE /\ \A k \in 1..7 : (sgn.a[k] # sgn.b[k]) <=> (k = sgn.changed)
             /\ SignData(sgn.a) # SignData(sgn.b) \/ sgn.a[7] # sgn.b[7]
             /\ sgn.outB # sgn.outA

\* the sixth input changed to a string of which another input is a prefix
C3_Witness ==
    /\ sgn.step = 2 /\ sgn.changed = 6
    /\ sgn.a[5] = "a" /\ sgn.a[6] = "ab" /\ sgn.b[6] = "a"
    /\ sgn.outB # sgn.outA

\* C4: an execution report (35=8) that lacks one of the tags 37, 150, 11, 54,
\* 38 yields a ParseError naming the missing tag and no logged report.
C4_MissingFieldIsError ==
    (event.name = "FromApp" /\ GetString(cbIn.Header, 35) = "8") =>
        \A t \in ReportTags :
            ~Has(cbIn.Body, t) =>
                /\ ret = "ParseError{MissingField, " \o ToString(t) \o "}"
                /\ \A i \in DOMAIN logged : logged[i].text # "Execution Report:"

\* C5 as stated: a Limit order holds Price 44 and TimeInForce 59; a Market
\* order holds neither, whatever limitPrice was passed.
C5_MarketOmitsPriceAndTif ==
    ord.built =>
        /\ ord.args.ordType = "LIMIT" => Has(ord.msg.Body, 44) /\ Has(ord.msg.Body, 59)
        /\ ord.args.ordType = "MARKET" => ~Has(ord.msg.Body, 44) /\ ~Has(ord.msg.Body, 59)

\* C5 amended: a Limit order holds Price 44 = limitPrice and TimeInForce
\* 59 = "1"; a Market order holds no Price 44, whatever limitPrice was passed,
\* and holds TimeInForce 59 = "3" (IOC).
C5_MarketOmitsPriceKeepsTif ==
    ord.built =>
        /\ ord.args.ordType = "LIMIT" =>
              /\ Has(ord.msg.Body, 44) /\ ord.msg.Body[44] = ord.args.limitPrice
              /\ Has(ord.msg.Body, 59) /\ ord.msg.Body[59] = "1"
        /\ ord.args.ordType = "MARKET" =>
              /\ ~Has(ord.msg.Body, 44)
              /\ Has(ord.msg.Body, 59) /\ ord.msg.Body[59] = "3"

C5_Witness ==
    /\ ord.built /\ ord.args.ordType = "MARKET" /\ ord.args.limitPrice = "1001"
    /\ ~Has(ord.msg.Body, 44) /\ Has(ord.msg.Body, 59)

\* C6: every message createOrderMessage returns holds ClOrdID 11, Symbol 55,
\* OrdType 40, OrderQty 38 and a Side 54 that is the side asked for.
C6_RequiredOrderFields ==
    ord.built =>
        /\ {11, 55, 54, 40, 38} \subseteq DOMAIN ord.msg.Body
        /\ \/ ord.args.side = "BUY" /\ ord.msg.Body[54] = "1"
           \/ ord.args.side = "SELL" /\ ord.msg.Body[54] = "2"

\* C7: no log line, and no message a log line renders, shows the API key,
\* the API secret, the passphrase or the portfolio ID; the API secret and the
\* signed string are in no log line and in no field of the callback's message.
C7_CredentialsNotLogged ==
    /\ \A i \in DOMAIN logged : LineShows(logged[i]) \cap Credentials = {}
    /\ app.ApiSecret \notin Rendered(cbOut)
    /\ signedWith.signed =>
          SignMessage(signedWith.timestamp, "A", signedWith.seqNum, app.ApiKey,
                      app.TargetCompId, app.Passphrase) \notin Rendered(cbOut)

\* C8: ToAdmin sets Account 1, RawData 96, Password 554, DropCopyFlag 9406 and
\* access key 9407 on the body exactly when tag 35 is "A"; any other
\* administrative message leaves ToAdmin unchanged; on a Logon tag 96 is
\* sign(timestamp, "A", seqNum, ApiKey, TargetCompId, Passphrase, ApiSecret)
\* and the header and the other body fields are unchanged.
C8_AuthFieldsOnLogonOnly ==
    event.name = "ToAdmin" =>
        IF GetString(cbIn.Header, 35) = "A"
        THEN /\ cbOut.Header = cbIn.Header
             /\ DOMAIN cbOut.Body = DOMAIN cbIn.Body \cup AuthTags
             /\ \A t \in DOMAIN cbIn.Body \ AuthTags : cbOut.Body[t] = cbIn.Body[t]
             /\ cbOut.Body[1] = app.PortfolioId
             /\ cbOut.Body[554] = app.Passphrase
             /\ cbOut.Body[9406] = "Y"
             /\ cbOut.Body[9407] = app.ApiKey
             /\ signedWith.signed
             /\ cbOut.Body[96] = sign(signedWith.timestamp, "A", signedWith.seqNum,
                                      app.ApiKey, app.TargetCompId, app.Passphrase,
                                      app.ApiSecret)
        ELSE /\ cbOut = cbIn
             /\ DOMAIN cbOut.Body \cap AuthTags = {}

\* a Heartbeat passed through ToAdmin after a Logon was signed
C8_Witness ==
    /\ event.name = "ToAdmin" /\ GetString(cbIn.Header, 35) = "0"
    /\ signedWith.signed /\ cbOut = cbIn

\* C9: on every Logon the signed seqNum is the message's MsgSeqNum (34) and
\* the signed timestamp is its SendingTime (52).
C9_SignedMatchesHeader ==
    (event.name = "ToAdmin" /\ GetString(cbIn.Header, 35) = "A") =>
        /\ signedWith.seqNum = cbOut.Header[34]
        /\ signedWith.timestamp = cbOut.Header[52]

====
